---- MODULE Spec2Model ----
(***************************************************************************)
(* A model of foiafeed.py: the pipeline that reads the configured RSS      *)
(* feeds, canonicalizes the entries' links, drops the entries already in   *)
(* the articles table, searches the text of the others for FOIA phrases,   *)
(* tweets the matching paragraphs and records every processed article.     *)
(*                                                                         *)
(* Text (URLs, plaintext, paragraphs, phrases) is a sequence of            *)
(* one-character strings.  The external collaborators (feed contents, the  *)
(* HEAD lookup, the text extraction, the image rendering, the Twitter      *)
(* client, the sqlite database) are inputs: what a call returns, or        *)
(* whether it raises, is chosen from small sets.                           *)
(***************************************************************************)
EXTENDS Naturals, Sequences, FiniteSets

----------------------------------------------------------------------------
(* Bounds of the model *)

\* longest feed (number of entries) handed out by feedparser
MaxFeedLen == 2
\* invocations of main by the external scheduler
MaxRuns == 2
\* longest feed when the texts have up to six matching paragraphs
MaxTweetFeedLen == 1
\* longest text, in tokens, handed to the matcher
MaxTokens == 5
\* longest url handed to canonicalize_url and answered by requests.head
MaxUrlLen == 2
\* longest feed when the process can be killed
MaxCrashFeedLen == 3

----------------------------------------------------------------------------
(* Program constants *)

\* "limit 1000" of the query for an outlet's recent urls, scaled down so that
\* an outlet can hold more rows than the window
RecentLimit == 2
\* matching_grafs[:4]
MaxExcerpts == 4
\* wrap width when the article has exactly one matching paragraph
WideWidth == 60
\* wrap width otherwise
NarrowWidth == 35

\* Comparison happens in lowercase, so no uppercase letters here!
FOIA_PHRASES == <<
    <<"f",".","o",".","i",".","a",".">>,
    <<"f","o","i","a">>,
    <<"f","r","e","e","d","o","m"," ","o","f"," ","i","n","f","o","r","m","a","t","i","o","n"," ","a","c","t">>,
    <<"f","r","e","e","d","o","m"," ","o","f"," ","i","n","f","o","r","m","a","t","i","o","n"," ","l","a","w">>,
    <<"r","e","c","o","r","d","s"," ","r","e","q","u","e","s","t">>,
    <<"o","p","e","n"," ","r","e","c","o","r","d","s">>,
    <<"p","u","b","l","i","c"," ","r","e","c","o","r","d","s"," ","a","c","t">>,
    <<"p","u","b","l","i","c"," ","r","e","c","o","r","d","s"," ","l","a","w">> >>

\* outlets whose links are resolved with a HEAD request
RedirectOutlets == {"ProPublica", "Reuters"}
\* outlets whose links keep their query string and fragment
CleanOutlets == {"AP"}

----------------------------------------------------------------------------
(* Text helpers *)

UpperCase == <<"A","B","C","D","E","F","G","H","I","J","K","L","M",
               "N","O","P","Q","R","S","T","U","V","W","X","Y","Z">>
LowerCase == <<"a","b","c","d","e","f","g","h","i","j","k","l","m",
               "n","o","p","q","r","s","t","u","v","w","x","y","z">>

\* str.lower() of one character
LowerChar(c) ==
    IF \E i \in 1..Len(UpperCase) : UpperCase[i] = c
    THEN LowerCase[CHOOSE i \in 1..Len(UpperCase) : UpperCase[i] = c]
    ELSE c

\* str.lower()
Lower(s) == [i \in 1..Len(s) |-> LowerChar(s[i])]

\* index of the first occurrence of character c in s, 0 when there is none
IndexOf(s, c) ==
    IF \E i \in 1..Len(s) : s[i] = c
    THEN CHOOSE i \in 1..Len(s) : s[i] = c /\ \A j \in 1..(i - 1) : s[j] # c
    ELSE 0

\* s.split(c)[0]
BeforeFirst(s, c) ==
    IF IndexOf(s, c) = 0 THEN s ELSE SubSeq(s, 1, IndexOf(s, c) - 1)

\* s.split(c): the pieces of s between the occurrences of c, empty ones kept
RECURSIVE Split(_, _)
Split(s, c) ==
    IF IndexOf(s, c) = 0
    THEN <<s>>
    ELSE <<SubSeq(s, 1, IndexOf(s, c) - 1)>>
            \o Split(SubSeq(s, IndexOf(s, c) + 1, Len(s)), c)

\* p in g
Contains(g, p) ==
    \E i \in 0..Len(g) : i + Len(p) <= Len(g) /\ SubSeq(g, i + 1, i + Len(p)) = p

----------------------------------------------------------------------------
(* URL canonicalization *)

\* as decruft_url, with the query cut at the last "?": url.rsplit('?', 1)[0]
decruft_url_LastQuery(url) ==
    LET qs == {i \in 1..Len(url) : url[i] = "?"}
        cut == IF qs = {} THEN url
               ELSE SubSeq(url, 1, (CHOOSE i \in qs : \A j \in qs : j <= i) - 1)
    IN  BeforeFirst(cut, "#")

\* url.split('?')[0].split('#')[0]
decruft_url(url) == BeforeFirst(BeforeFirst(url, "?"), "#")

\* Article.canonicalize_url; res is the response of requests.head for url
canonicalize_url(outlet, url, res) ==
    LET resolved == IF outlet \in RedirectOutlets
                    THEN (IF res.hasLocation THEN res.location ELSE res.url)
                    ELSE url
    IN  IF outlet \notin CleanOutlets THEN decruft_url(resolved) ELSE resolved

----------------------------------------------------------------------------
(* Phrase matching *)

\* as GrafMatches, without lowering the paragraph
GrafMatches_CaseSensitive(graf) ==
    \E k \in 1..Len(FOIA_PHRASES) : Contains(graf, Lower(FOIA_PHRASES[k]))

\* any(phrase.lower() in graf.lower() for phrase in FOIA_PHRASES)
GrafMatches(graf) ==
    \E k \in 1..Len(FOIA_PHRASES) : Contains(Lower(graf), Lower(FOIA_PHRASES[k]))

\* the paragraphs check_for_matches appends to matching_grafs
MatchingGrafs(plaintext) == SelectSeq(Split(plaintext, "\n"), GrafMatches)

----------------------------------------------------------------------------
(* Inputs of the pipeline *)

\* rssfeeds.json: the configured outlets, in order
FeedConfigs == {<<"ProPublica", "Other">>, <<"AP", "AP">>}

\* the raw links feed entries carry
FeedLinks == {<<"a">>, <<"a","?","q">>, <<"b">>}

\* a feed entry: the keys feedparser found, and the link
WellFormedEntries == {[hasTitle |-> TRUE, hasLink |-> TRUE, link |-> l] : l \in FeedLinks}
MalformedEntries == {[hasTitle |-> FALSE, hasLink |-> TRUE, link |-> <<"b">>]}
FeedEntries == WellFormedEntries \cup MalformedEntries

\* Seq(S) up to length n
SeqsUpTo(S, n) == UNION {[1..k -> S] : k \in 0..n}

\* what requests.head answers for each link: link b is redirected to a url
\* that carries a fragment, the other links are not redirected
HeadMaps ==
    {[l \in FeedLinks |->
        IF l = <<"b">>
        THEN [hasLocation |-> TRUE, location |-> <<"c","#","f">>, url |-> <<"b">>]
        ELSE [hasLocation |-> FALSE, location |-> <<>>, url |-> l]]}

\* what clean_article can return: a text without a matching paragraph and
\* a text whose second paragraph matches
Plaintexts ==
    {<<"x">>,
     <<"x","\n","F","O","I","A">>}

\* texts with one, two and six matching paragraphs
Graf(d) == <<"f","o","i","a"," ",d>>
TweetPlaintexts ==
    {<<"x","\n","F","O","I","A">>,
     <<"F","O","I","A","\n","x","\n">> \o <<"f",".","o",".","i",".","a",".">>,
     Graf("1") \o <<"\n">> \o Graf("2") \o <<"\n">> \o Graf("3") \o <<"\n">>
        \o Graf("4") \o <<"\n">> \o Graf("5") \o <<"\n">> \o Graf("6")}

\* pieces the texts handed to the matcher are made of: halves of a phrase in
\* either case, whole phrases in upper and mixed case, a newline, another letter
MatchTokens ==
    {<<"f","o">>, <<"I","A">>, <<"\n">>, <<"x">>,
     <<"F",".","O",".","I",".","A",".">>,
     <<"O","p","e","n"," ","R","e","c","o","r","d","s">>}

RECURSIVE Flatten(_)
Flatten(ss) == IF ss = <<>> THEN <<>> ELSE Head(ss) \o Flatten(Tail(ss))

\* every text of up to MaxTokens pieces
MatchTexts == {Flatten(ts) : ts \in SeqsUpTo(MatchTokens, MaxTokens)}

\* outlets canonicalize_url is applied for: the two it resolves redirects
\* for, the one it leaves alone, and one that is only decrufted
CanonOutlets == {"ProPublica", "Reuters", "AP", "Other"}

\* urls of up to MaxUrlLen characters, with and without "?" and "#"
CanonUrls == SeqsUpTo({"a", "?", "#"}, MaxUrlLen)

\* answers of requests.head: a final response with a location header, or one
\* without, reached at some url
HeadResponses ==
    {[hasLocation |-> TRUE, location |-> v, url |-> v] : v \in CanonUrls}
        \cup {[hasLocation |-> FALSE, location |-> <<>>, url |-> v] : v \in CanonUrls}

\* the url of an article whose page clean_article fails on at every attempt
BrokenUrl == <<"a">>

\* the only title feeds carry in the model
Title == "t"

----------------------------------------------------------------------------
(* State *)

VARIABLES
    rss_feeds,    \* main: the configured outlets (rssfeeds.json)
    feedData,     \* the entries each feed serves (unchanged between runs)
    documents,    \* the plaintexts clean_article can return
    head,         \* what requests.head answers (unchanged between runs)
    store,        \* the articles table: rows in id order, empty at first
    pc,           \* where main is: idle, feed, check, tweet, persist, sleep, done,
                  \* failed, crashed
    error,        \* the exception main died of, "none" otherwise
    fi,           \* main: index of the feed of the outer loop
    articles,     \* main: the outlet's articles left after the filter
    recent_urls,  \* main: urls of the outlet's most recent rows
    counter,      \* main: enumerate(articles, 1)
    runs,         \* number of times main was started
    extracted,    \* log: calls of clean_article in this run
    posts,        \* log: statuses posted by update_status, all runs
    tweetCall,    \* log: what the tweet call of the article being processed did
    rowsAtStart,  \* log: rows in the table when the run started
    readRows,     \* log: rows in the table when recent_urls was read
    batch,        \* log: index of the feed recent_urls was last read for, 0 if none
    prevDone,     \* log: the run before this one ended without an exception
    prevCrashed,  \* log: the run before this one was ended by a crash
    survivors,    \* log: articles that passed the filter in this run
    dbFailed      \* log: a database call of this run raised

vars == <<rss_feeds, feedData, documents, head, store, pc, error, fi, articles, recent_urls,
          counter, runs, extracted, posts, tweetCall, rowsAtStart, readRows,
          batch, prevDone, prevCrashed, survivors, dbFailed>>

config == <<rss_feeds, feedData, documents, head>>

NoTweet == [called |-> FALSE, rendered |-> <<>>, renderFailed |-> 0,
            uploaded |-> <<>>, media_ids |-> <<>>, posted |-> FALSE]

\* a row of the articles table (recorded_at left out)
Row(title, outlet, url, tweeted) ==
    [title |-> title, outlet |-> outlet, url |-> url, tweeted |-> tweeted]

\* as Article, with the flag set from the start
Article_Tweeted(outlet, title, url, res) ==
    [outlet |-> outlet, title |-> title, url |-> canonicalize_url(outlet, url, res),
     matching_grafs |-> <<>>, imgs |-> <<>>, tweeted |-> TRUE]

\* Article.__init__
Article(outlet, title, url, res) ==
    [outlet |-> outlet, title |-> title, url |-> canonicalize_url(outlet, url, res),
     matching_grafs |-> <<>>, imgs |-> <<>>, tweeted |-> FALSE]

\* the state when the script is first started, but for the inputs
InitMain ==
    /\ head \in HeadMaps
    /\ store = <<>>
    /\ pc = "idle"
    /\ error = "none"
    /\ fi = 1
    /\ articles = <<>>
    /\ recent_urls = <<>>
    /\ counter = 1
    /\ runs = 0
    /\ extracted = <<>>
    /\ posts = <<>>
    /\ tweetCall = NoTweet
    /\ rowsAtStart = Len(store)
    /\ readRows = Len(store)
    /\ batch = 0
    /\ prevDone = FALSE
    /\ prevCrashed = FALSE
    /\ survivors = 0
    /\ dbFailed = FALSE

Init ==
    /\ rss_feeds \in FeedConfigs
    /\ feedData \in [1..Len(rss_feeds) -> SeqsUpTo(FeedEntries, MaxFeedLen)]
    /\ documents = Plaintexts
    /\ InitMain

\* short feeds, texts with up to six matching paragraphs
InitTweet ==
    /\ rss_feeds = <<"ProPublica", "AP">>
    /\ feedData \in [1..Len(rss_feeds) -> SeqsUpTo(FeedEntries, MaxTweetFeedLen)]
    /\ documents = TweetPlaintexts
    /\ InitMain

\* main about to call check_for_matches on the only article of the only
\* feed; the page of the article is any of MatchTexts
InitMatch ==
    /\ rss_feeds = <<"AP">>
    /\ feedData = <<  <<[hasTitle |-> TRUE, hasLink |-> TRUE, link |-> <<"a">>]>>  >>
    /\ documents \in {{t} : t \in MatchTexts}
    /\ head \in HeadMaps
    /\ store = <<>>
    /\ pc = "check"
    /\ error = "none"
    /\ fi = 1
    /\ articles = <<Article(rss_feeds[1], Title, feedData[1][1].link,
                            head[feedData[1][1].link])>>
    /\ recent_urls = <<>>
    /\ counter = 1
    /\ runs = 1
    /\ extracted = <<>>
    /\ posts = <<>>
    /\ tweetCall = NoTweet
    /\ rowsAtStart = 0
    /\ readRows = 0
    /\ batch = 1
    /\ prevDone = FALSE
    /\ prevCrashed = FALSE
    /\ survivors = 1
    /\ dbFailed = FALSE

\* parse_feed about to construct the article of the only entry of the only
\* feed: any outlet, any link, any answer of requests.head for the link and
\* any answer for every other url
InitCanon ==
    /\ rss_feeds \in {<<o>> : o \in CanonOutlets}
    /\ \E l \in CanonUrls \ {<<>>} :
          /\ feedData = <<  <<[hasTitle |-> TRUE, hasLink |-> TRUE, link |-> l]>>  >>
          /\ head \in {[v \in CanonUrls |-> IF v = l THEN r1 ELSE r2] :
                            r1 \in HeadResponses, r2 \in HeadResponses}
    /\ documents = Plaintexts
    /\ store = <<>>
    /\ pc = "feed"
    /\ error = "none"
    /\ fi = 1
    /\ articles = <<>>
    /\ recent_urls = <<>>
    /\ counter = 1
    /\ runs = 1
    /\ extracted = <<>>
    /\ posts = <<>>
    /\ tweetCall = NoTweet
    /\ rowsAtStart = 0
    /\ readRows = 0
    /\ batch = 0
    /\ prevDone = FALSE
    /\ prevCrashed = FALSE
    /\ survivors = 0
    /\ dbFailed = FALSE

\* one outlet, feeds long enough to outgrow the window of recent urls
InitCrash ==
    /\ rss_feeds \in {<<"AP">>, <<"ProPublica">>}
    /\ feedData \in [1..Len(rss_feeds) -> SeqsUpTo(FeedEntries, MaxCrashFeedLen)]
    /\ documents = Plaintexts
    /\ InitMain

\* two outlets, feeds without malformed entries
InitRepeat ==
    /\ rss_feeds = <<"ProPublica", "Other">>
    /\ feedData \in [1..Len(rss_feeds) -> SeqsUpTo(WellFormedEntries, MaxFeedLen)]
    /\ documents = Plaintexts
    /\ InitMain

----------------------------------------------------------------------------
(* Helpers of main *)

Range(s) == {s[i] : i \in 1..Len(s)}

Min(a, b) == IF a < b THEN a ELSE b

\* as RecentURLs, with "order by id asc": the outlet's oldest rows
RecentURLs_Oldest(table, outlet) ==
    LET OfOutlet(r) == r.outlet = outlet
        rows == SelectSeq(table, OfOutlet)
        n == Len(rows)
    IN  [i \in 1..Min(n, RecentLimit) |-> rows[i].url]

\* as RecentURLs, with the limit applied to the whole table before the
\* outlet is selected
RecentURLs_LimitFirst(table, outlet) ==
    LET OfOutlet(r) == r.outlet = outlet
        n == Len(table)
        last == [i \in 1..Min(n, RecentLimit) |-> table[n - i + 1]]
        rows == SelectSeq(last, OfOutlet)
    IN  [i \in 1..Len(rows) |-> rows[i].url]

\* select url from articles where outlet=? order by id desc limit 1000
RecentURLs(table, outlet) ==
    LET OfOutlet(r) == r.outlet = outlet
        rows == SelectSeq(table, OfOutlet)
        n == Len(rows)
    IN  [i \in 1..Min(n, RecentLimit) |-> rows[n - i + 1].url]

\* entry['title'] and entry['link'] both succeed
WellFormed(entry) == entry.hasTitle /\ entry.hasLink

\* index of the first entry on which parse_feed raises KeyError, 0 if none
FirstMalformed(entries) ==
    IF \E i \in 1..Len(entries) : ~WellFormed(entries[i])
    THEN CHOOSE i \in 1..Len(entries) :
            ~WellFormed(entries[i]) /\ \A j \in 1..(i - 1) : WellFormed(entries[j])
    ELSE 0

\* parse_feed on a feed all of whose entries have a title and a link
parse_feed(outlet, entries, heads) ==
    [i \in 1..Len(entries) |->
        Article(outlet, Title, entries[i].link, heads[entries[i].link])]

\* as FilterSeen, with the title of the article looked up among the urls
FilterSeen_ByTitle(arts, recent) ==
    LET Unseen(a) == a.title \notin Range(recent)
    IN  SelectSeq(arts, Unseen)

\* as FilterSeen, with the articles left in reverse order
FilterSeen_Reversed(arts, recent) ==
    LET Unseen(a) == a.url \notin Range(recent)
        kept == SelectSeq(arts, Unseen)
    IN  [i \in 1..Len(kept) |-> kept[Len(kept) - i + 1]]

\* [a for a in articles if a.url not in recent_urls]
FilterSeen(arts, recent) ==
    LET Unseen(a) == a.url \notin Range(recent)
    IN  SelectSeq(arts, Unseen)

\* render_img: the image of a paragraph wrapped at a width
render_img(graf, width) == [graf |-> graf, width |-> width]

\* as WrapWidth, with the two widths the other way round
WrapWidth_Swapped(grafs) == IF Len(grafs) = 1 THEN NarrowWidth ELSE WideWidth

\* the width tweet passes to render_img
WrapWidth(grafs) == IF Len(grafs) = 1 THEN WideWidth ELSE NarrowWidth

\* as FirstExcerpts, with the slice taken from the end: matching_grafs[-4:]
FirstExcerpts_Last(grafs) ==
    SubSeq(grafs, Len(grafs) - Min(MaxExcerpts, Len(grafs)) + 1, Len(grafs))

\* self.matching_grafs[:4]
FirstExcerpts(grafs) == SubSeq(grafs, 1, Min(MaxExcerpts, Len(grafs)))

\* The list tweet passes as media_ids, given the handles upload_media
\* returned.  Line 74 binds the local media_ids; line 83 appends each handle
\* to self.media_ids, an attribute __init__ never sets, so the append raises
\* AttributeError, the bare except of line 84 swallows it, and the local list
\* of line 88 is the empty one of line 74.
media_ids(uploaded) == <<>>

\* self.outlet + ": " + self.title + " " + self.url
StatusText(a) == <<a.outlet, ": ", a.title, " ", a.url>>

\* the exception leaves main: the process ends with a traceback
Raise(e) == pc' = "failed" /\ error' = e

----------------------------------------------------------------------------
(* Actions *)

\* main, lines 159-165: the scheduler starts the script; connect to the
\* database (which may raise), load the feed list
StartRun ==
    /\ pc \in {"idle", "done", "failed", "crashed"}
    /\ runs < MaxRuns
    /\ runs' = runs + 1
    /\ fi' = 1
    /\ articles' = <<>>
    /\ recent_urls' = <<>>
    /\ counter' = 1
    /\ tweetCall' = NoTweet
    /\ rowsAtStart' = Len(store)
    /\ readRows' = Len(store)
    /\ batch' = 0
    /\ prevDone' = (pc = "done")
    /\ prevCrashed' = (pc = "crashed")
    /\ survivors' = 0
    /\ extracted' = <<>>
    /\ \/ pc' = "feed" /\ error' = "none" /\ dbFailed' = FALSE
       \/ Raise("sqlite3") /\ dbFailed' = TRUE
    /\ UNCHANGED <<config, store, posts>>

\* main, lines 168-176: parse the feed of the next outlet, read the outlet's
\* recent urls, drop the articles already recorded
FetchAndFilter ==
    /\ pc = "feed"
    /\ fi <= Len(rss_feeds)
    /\ LET outlet == rss_feeds[fi]
           entries == feedData[fi]
           bad == FirstMalformed(entries)
           parsed == parse_feed(outlet, entries, head)
           recent == RecentURLs(store, outlet)
           kept == FilterSeen(parsed, recent)
       IN  \/ \* entry['title'] or entry['link'] raises KeyError
              /\ bad # 0
              /\ Raise("KeyError")
              /\ UNCHANGED <<fi, articles, recent_urls, counter, readRows, batch,
                             survivors, dbFailed>>
           \/ \* requests.head raises for an entry before any malformed one
              /\ outlet \in RedirectOutlets
              /\ \E i \in 1..Len(entries) : bad = 0 \/ i < bad
              /\ Raise("requests")
              /\ UNCHANGED <<fi, articles, recent_urls, counter, readRows, batch,
                             survivors, dbFailed>>
           \/ \* the select raises
              /\ bad = 0
              /\ Raise("sqlite3")
              /\ dbFailed' = TRUE
              /\ UNCHANGED <<fi, articles, recent_urls, counter, readRows, batch,
                             survivors>>
           \/ \* no exception
              /\ bad = 0
              /\ recent_urls' = recent
              /\ articles' = kept
              /\ readRows' = Len(store)
              /\ batch' = fi
              /\ survivors' = survivors + Len(kept)
              /\ counter' = 1
              /\ IF kept = <<>>
                 THEN fi' = fi + 1 /\ pc' = "feed"
                 ELSE fi' = fi /\ pc' = "check"
              /\ UNCHANGED <<error, dbFailed>>
    /\ UNCHANGED <<config, store, runs, extracted, posts, tweetCall, rowsAtStart,
                   prevDone, prevCrashed>>

\* main, line 182: Article.check_for_matches, lines 59-65
CheckForMatches ==
    /\ pc = "check"
    /\ LET a == articles[counter]
       IN  /\ extracted' = Append(extracted,
                                  [feed |-> fi, outlet |-> a.outlet, url |-> a.url])
           /\ \/ \* clean_article raises
                 /\ Raise("clean_article")
                 /\ UNCHANGED articles
              \/ \E plaintext \in documents :
                    LET grafs == a.matching_grafs \o MatchingGrafs(plaintext)
                    IN  /\ articles' = [articles EXCEPT ![counter].matching_grafs = grafs]
                        /\ pc' = IF grafs # <<>> THEN "tweet" ELSE "persist"
                        /\ UNCHANGED error
    /\ UNCHANGED <<config, store, fi, recent_urls, counter, runs, posts, tweetCall,
                   rowsAtStart, readRows, batch, prevDone, prevCrashed, survivors,
                   dbFailed>>

\* main, line 186: Article.tweet, lines 67-90
Tweet ==
    /\ pc = "tweet"
    /\ LET a == articles[counter]
           grafs == FirstExcerpts(a.matching_grafs)
           width == WrapWidth(a.matching_grafs)
           imgs == [i \in 1..Len(grafs) |-> render_img(grafs[i], width)]
           Status(ok) == [run |-> runs, feed |-> fi, outlet |-> a.outlet, url |-> a.url,
                          status |-> StatusText(a), media_ids |-> media_ids(ok)]
           Uploaded(okSet) ==
                LET Ok(i) == i \in okSet
                IN  SelectSeq([i \in 1..Len(imgs) |-> i], Ok)
       IN  \/ \* render_img raises on the k-th excerpt
              \E k \in 1..Len(grafs) :
                /\ articles' = [articles EXCEPT
                                    ![counter].imgs = a.imgs \o SubSeq(imgs, 1, k - 1)]
                /\ tweetCall' = [NoTweet EXCEPT !.called = TRUE,
                                    !.rendered = SubSeq(imgs, 1, k - 1),
                                    !.renderFailed = k]
                /\ Raise("render_img")
                /\ UNCHANGED posts
           \/ \* every excerpt is rendered, the uploads of okSet succeed,
              \* update_status raises
              \E okSet \in SUBSET (1..Len(grafs)) :
                /\ articles' = [articles EXCEPT ![counter].imgs = a.imgs \o imgs]
                /\ tweetCall' = [NoTweet EXCEPT !.called = TRUE, !.rendered = imgs,
                                    !.uploaded = Uploaded(okSet),
                                    !.media_ids = media_ids(Uploaded(okSet))]
                /\ Raise("update_status")
                /\ UNCHANGED posts
           \/ \* every excerpt is rendered, the uploads of okSet succeed,
              \* the status is posted
              \E okSet \in SUBSET (1..Len(grafs)) :
                /\ articles' = [articles EXCEPT ![counter].imgs = a.imgs \o imgs,
                                                ![counter].tweeted = TRUE]
                /\ tweetCall' = [NoTweet EXCEPT !.called = TRUE, !.rendered = imgs,
                                    !.uploaded = Uploaded(okSet),
                                    !.media_ids = media_ids(Uploaded(okSet)),
                                    !.posted = TRUE]
                /\ posts' = Append(posts, Status(Uploaded(okSet)))
                /\ pc' = "persist"
                /\ UNCHANGED error
    /\ UNCHANGED <<config, store, fi, recent_urls, counter, runs, extracted,
                   rowsAtStart, readRows, batch, prevDone, prevCrashed, survivors,
                   dbFailed>>

\* as Persist, with the database error caught and the loop going on
Persist_Swallow ==
    /\ pc = "persist"
    /\ \/ /\ dbFailed' = TRUE
          /\ UNCHANGED store
       \/ /\ store' = Append(store, Row(articles[counter].title, articles[counter].outlet,
                                       articles[counter].url, articles[counter].tweeted))
          /\ UNCHANGED dbFailed
    /\ tweetCall' = NoTweet
    /\ pc' = "sleep"
    /\ UNCHANGED <<config, error, fi, articles, recent_urls, counter, runs, extracted,
                   posts, rowsAtStart, readRows, batch, prevDone, prevCrashed, survivors>>

\* as Persist, with "insert or replace" on the url: the row of an url that is
\* already recorded is overwritten
Persist_Replace ==
    /\ pc = "persist"
    /\ LET a == articles[counter]
           row == Row(a.title, a.outlet, a.url, a.tweeted)
           old == {k \in 1..Len(store) : store[k].outlet = a.outlet /\ store[k].url = a.url}
       IN  \/ /\ Raise("sqlite3")
              /\ dbFailed' = TRUE
              /\ UNCHANGED <<store, tweetCall>>
           \/ /\ store' = IF old = {} THEN Append(store, row)
                           ELSE [k \in 1..Len(store) |-> IF k \in old THEN row ELSE store[k]]
              /\ tweetCall' = NoTweet
              /\ pc' = "sleep"
              /\ UNCHANGED <<error, dbFailed>>
    /\ UNCHANGED <<config, fi, articles, recent_urls, counter, runs, extracted, posts,
                   rowsAtStart, readRows, batch, prevDone, prevCrashed, survivors>>

\* main, lines 188-194: insert the article's row and commit
Persist ==
    /\ pc = "persist"
    /\ LET a == articles[counter]
       IN  \/ \* the insert or the commit raises: no row becomes durable
              /\ Raise("sqlite3")
              /\ dbFailed' = TRUE
              /\ UNCHANGED <<store, tweetCall>>
           \/ /\ store' = Append(store, Row(a.title, a.outlet, a.url, a.tweeted))
              /\ tweetCall' = NoTweet
              /\ pc' = "sleep"
              /\ UNCHANGED <<error, dbFailed>>
    /\ UNCHANGED <<config, fi, articles, recent_urls, counter, runs, extracted, posts,
                   rowsAtStart, readRows, batch, prevDone, prevCrashed, survivors>>

\* main, line 196 and the loop headers: sleep, then the next article, or the
\* next feed when the outlet's articles are exhausted
Sleep ==
    /\ pc = "sleep"
    /\ IF counter < Len(articles)
       THEN counter' = counter + 1 /\ fi' = fi /\ pc' = "check"
       ELSE counter' = counter /\ fi' = fi + 1 /\ pc' = "feed"
    /\ UNCHANGED <<config, store, error, articles, recent_urls, runs, extracted, posts,
                   tweetCall, rowsAtStart, readRows, batch, prevDone, prevCrashed,
                   survivors, dbFailed>>

\* main, line 198: every feed is done, close the connection
Finish ==
    /\ pc = "feed"
    /\ fi > Len(rss_feeds)
    /\ pc' = "done"
    /\ UNCHANGED <<config, store, error, fi, articles, recent_urls, counter, runs,
                   extracted, posts, tweetCall, rowsAtStart, readRows, batch,
                   prevDone, prevCrashed, survivors, dbFailed>>

\* Article.__init__, line 46: canonicalize_url applied to the link of the
\* entry, and then once more to the url it produced
Canonicalize ==
    /\ pc = "feed"
    /\ Len(articles) < 2
    /\ LET url == IF articles = <<>> THEN feedData[1][1].link
                  ELSE articles[Len(articles)].url
       IN  articles' = Append(articles, Article(rss_feeds[1], Title, url, head[url]))
    /\ UNCHANGED <<config, store, pc, error, fi, recent_urls, counter, runs, extracted,
                   posts, tweetCall, rowsAtStart, readRows, batch, prevDone,
                   prevCrashed, survivors,
                   dbFailed>>

\* the process is killed (power loss, kill -9) at any point of a run: what
\* main held in memory is gone, the committed rows and the posted statuses
\* stay; the logs of the run end with it
Crash ==
    /\ pc \in {"feed", "check", "tweet", "persist", "sleep"}
    /\ pc' = "crashed"
    /\ fi' = 1
    /\ articles' = <<>>
    /\ recent_urls' = <<>>
    /\ counter' = 1
    /\ tweetCall' = NoTweet
    /\ extracted' = <<>>
    /\ readRows' = Len(store)
    /\ batch' = 0
    /\ survivors' = 0
    /\ UNCHANGED <<config, store, error, runs, posts, rowsAtStart, prevDone, prevCrashed,
                   dbFailed>>

Next ==
    \/ StartRun
    \/ FetchAndFilter
    \/ CheckForMatches
    \/ Tweet
    \/ Persist
    \/ Sleep
    \/ Finish

Spec == Init /\ [][Next]_vars

\* main with crashes
NextCrash ==
    \/ Next
    \/ Crash

SpecCrash == InitCrash /\ [][NextCrash]_vars

\* The scheduler starts the script again and again.  As StartRun, without
\* the count of the runs; the database is reachable.
Rerun ==
    /\ pc \in {"idle", "done", "failed"}
    /\ runs' = 1
    /\ fi' = 1
    /\ articles' = <<>>
    /\ recent_urls' = <<>>
    /\ counter' = 1
    /\ tweetCall' = NoTweet
    /\ rowsAtStart' = Len(store)
    /\ readRows' = Len(store)
    /\ batch' = 0
    /\ prevDone' = (pc = "done")
    /\ prevCrashed' = FALSE
    /\ survivors' = 0
    /\ extracted' = <<>>
    /\ pc' = "feed"
    /\ error' = "none"
    /\ dbFailed' = FALSE
    /\ UNCHANGED <<config, store, posts>>

\* the steps of main when the only thing that ever fails is clean_article on
\* the page of BrokenUrl, and it fails every time
FetchAndFilterOk == FetchAndFilter /\ error' = "none"

CheckForMatchesBroken ==
    CheckForMatches /\ (error' = "clean_article" <=> articles[counter].url = BrokenUrl)

TweetOk == Tweet /\ error' = "none"

PersistOk == Persist /\ error' = "none"

NextRepeat ==
    \/ Rerun
    \/ FetchAndFilterOk
    \/ CheckForMatchesBroken
    \/ TweetOk
    \/ PersistOk
    \/ Sleep
    \/ Finish

\* main run over and over: every statement that can be executed is executed
\* in the end, and a run that has ended is followed by another
SpecRepeat == InitRepeat /\ [][NextRepeat]_vars /\ WF_vars(NextRepeat)

SpecTweet == InitTweet /\ [][Next]_vars

\* check_for_matches alone, on every text of MatchTexts
SpecMatch == InitMatch /\ [][CheckForMatches]_vars

\* canonicalize_url alone, applied twice, on every outlet, url and answer
SpecCanon == InitCanon /\ [][Canonicalize]_vars

----------------------------------------------------------------------------
(* Vocabulary of the properties *)

\* number of rows of an outlet
RowsOf(table, outlet) ==
    Cardinality({i \in 1..Len(table) : table[i].outlet = outlet})

\* urls of the rows of an outlet that have fewer than RecentLimit later rows
\* of the same outlet: the min(N, limit) most recent ones
WindowUrls(table, outlet) ==
    {table[i].url : i \in {k \in 1..Len(table) :
        /\ table[k].outlet = outlet
        /\ Cardinality({j \in (k + 1)..Len(table) : table[j].outlet = outlet})
              < RecentLimit}}

\* canonical url of the i-th entry of feed f
CanonOf(f, i) ==
    canonicalize_url(rss_feeds[f], feedData[f][i].link, head[feedData[f][i].link])

\* the table as it was when recent_urls was last read
StoreAtRead == SubSeq(store, 1, readRows)

\* statuses posted in this run
RunPosts == {k \in 1..Len(posts) : posts[k].run = runs}

\* main is inside the article loop of feed `batch`
InBatch == pc \in {"check", "tweet", "persist", "sleep"}

----------------------------------------------------------------------------
(* Properties *)

\* C1: at the end of a run, also one that a failed text extraction or a failed
\* status post ended, the table has grown by exactly the number of articles
\* that passed the dedup filter.
C1_OneRowPerSurvivor ==
    (pc = "done" \/ (pc = "failed" /\ error \in {"clean_article", "update_status"}))
        => Len(store) - rowsAtStart = survivors

\* C2: a feed entry whose canonical url is among the min(N, limit) most recent
\* rows of its outlet when the outlet's rows are read is not extracted, not
\* posted and gets no new row.
C2_SeenNeverProcessed ==
    batch > 0 =>
        \A i \in 1..Len(feedData[batch]) :
            CanonOf(batch, i) \in WindowUrls(StoreAtRead, rss_feeds[batch]) =>
                /\ \A k \in 1..Len(extracted) :
                      ~(extracted[k].feed = batch /\ extracted[k].url = CanonOf(batch, i))
                /\ \A k \in RunPosts :
                      ~(posts[k].feed = batch /\ posts[k].url = CanonOf(batch, i))
                /\ \A k \in (readRows + 1)..Len(store) :
                      ~(store[k].outlet = rss_feeds[batch]
                            /\ store[k].url = CanonOf(batch, i))

\* C2 witness: a run ended after its last outlet, which had more rows than the
\* window holds, was read with an entry of its feed in the window.
C2_Witness ==
    /\ pc = "done"
    /\ batch > 0
    /\ RowsOf(StoreAtRead, rss_feeds[batch]) > RecentLimit
    /\ \E i \in 1..Len(feedData[batch]) :
          CanonOf(batch, i) \in WindowUrls(StoreAtRead, rss_feeds[batch])

\* C3: within a run no (outlet, canonical url) pair is extracted twice, posted
\* twice or given two rows.
C3_NoPairTwice ==
    /\ \A j, k \in 1..Len(extracted) :
          (j # k /\ extracted[j].outlet = extracted[k].outlet)
              => extracted[j].url # extracted[k].url
    /\ \A j, k \in RunPosts :
          (j # k /\ posts[j].outlet = posts[k].outlet) => posts[j].url # posts[k].url
    /\ \A j, k \in (rowsAtStart + 1)..Len(store) :
          (j # k /\ store[j].outlet = store[k].outlet) => store[j].url # store[k].url

\* C4: when update_status raised for an article, the run goes on (the article
\* is recorded with tweeted false and the loop continues): main has not ended.
C4_PublishFailureNotFatal ==
    (tweetCall.called /\ tweetCall.renderFailed = 0 /\ ~tweetCall.posted)
        => pc # "failed"

\* C5: a failed text extraction does not end the run.
C5_ExtractFailureNotFatal ==
    pc = "failed" => error # "clean_article"

\* C6: the media_ids of the status tweet posted are the handles of the
\* uploads that succeeded, in order.
C6_UploadedAttached ==
    (pc = "persist" /\ tweetCall.posted)
        => posts[Len(posts)].media_ids = tweetCall.uploaded

\* C7: when render_img raised for an excerpt, the article is not aborted: the
\* run goes on to post the status and to record the article.
C7_RenderFailureNotFatal ==
    tweetCall.renderFailed # 0 => pc # "failed"

\* C8: a feed entry without a title or a link does not end the run, and the
\* outlet's articles are those of the well-formed entries, in feed order
\* (those already seen dropped).
C8_MalformedEntrySkipped ==
    /\ pc = "failed" => error # "KeyError"
    /\ InBatch =>
          LET wf == {i \in 1..Len(feedData[batch]) : WellFormed(feedData[batch][i])}
              unseen == {i \in wf : CanonOf(batch, i) \notin
                                        WindowUrls(StoreAtRead, rss_feeds[batch])}
          IN  /\ Len(articles) = Cardinality(unseen)
              /\ \A k \in 1..Len(articles) :
                    \E i \in unseen :
                        /\ articles[k].url = CanonOf(batch, i)
                        /\ Cardinality({j \in unseen : j < i}) = k - 1

\* C9: once a database call of a run has raised, main has ended with the
\* database error, and within that run nothing more is extracted, posted or
\* recorded.
C9_StoreFailureFatal ==
    /\ [](dbFailed => (pc = "failed" /\ error = "sqlite3"))
    /\ [][(dbFailed /\ runs' = runs)
            => UNCHANGED <<pc, error, extracted, posts, store>>]_vars

\* C9 witness: the insert raised while the outlet had articles left.
C9_Witness ==
    /\ dbFailed
    /\ pc = "failed"
    /\ batch > 0
    /\ counter < Len(articles)
    /\ batch < Len(rss_feeds)

\* the run in progress has extracted, posted and recorded nothing
RunIsNoOp ==
    /\ extracted = <<>>
    /\ RunPosts = {}
    /\ Len(store) = rowsAtStart

\* no feed carries two well-formed entries with the same canonical url
FeedsDistinct ==
    \A f \in 1..Len(rss_feeds) :
        \A i, j \in 1..Len(feedData[f]) :
            (i # j /\ WellFormed(feedData[f][i]) /\ WellFormed(feedData[f][j]))
                => CanonOf(f, i) # CanonOf(f, j)

\* C10 as claimed: a run started after a run that ended without an exception
\* extracts nothing, posts nothing and records nothing.  (Stated for feeds
\* without repeated urls, so that a violation owes nothing to an article
\* recorded twice within one run.)
C10_SecondRunNoOp ==
    (runs >= 2 /\ prevDone /\ FeedsDistinct) => RunIsNoOp

\* no outlet had more rows than the window holds when the run started
AllRowsInWindow ==
    \A f \in 1..Len(rss_feeds) :
        RowsOf(SubSeq(store, 1, rowsAtStart), rss_feeds[f]) <= RecentLimit

\* C10 amended: such a run is a no-op provided no outlet has more rows in the
\* table than the window of recent rows holds.
C10_SecondRunNoOpInWindow ==
    (runs >= 2 /\ prevDone /\ AllRowsInWindow) => RunIsNoOp

\* C10 witness: a second run over feeds that gave the table rows has ended.
C10_Witness ==
    /\ runs = 2
    /\ prevDone
    /\ pc = "done"
    /\ AllRowsInWindow
    /\ rowsAtStart >= 2
    /\ \A f \in 1..Len(rss_feeds) : feedData[f] # <<>>

\* C11: whatever the number k of matching paragraphs of an article, the tweet
\* call renders no more than 4 of them, what it has rendered are the first
\* paragraphs in their order, and when no rendering raised they are exactly
\* the first min(k, 4); the article never holds more than 4 images to upload.
C11_AtMostFourFirst ==
    tweetCall.called =>
        LET grafs == articles[counter].matching_grafs
            k == Len(grafs)
            n == Len(tweetCall.rendered)
        IN  /\ n <= 4
            /\ n <= k
            /\ \A i \in 1..n : tweetCall.rendered[i].graf = grafs[i]
            /\ tweetCall.renderFailed = 0 => n = (IF k < 4 THEN k ELSE 4)
            /\ Len(articles[counter].imgs) <= 4
            /\ Len(tweetCall.uploaded) <= 4

\* C11 witness: an article with six matching paragraphs was posted with the
\* images of four of them.
C11_Witness ==
    /\ tweetCall.called
    /\ tweetCall.posted
    /\ Len(articles[counter].matching_grafs) = 6
    /\ Len(tweetCall.rendered) = 4

\* C12: every image of a tweet call is wrapped at 60 when the article has
\* exactly one matching paragraph and at 35 when it has two or more, also
\* when it has more than the four that are rendered.
C12_WrapWidth ==
    tweetCall.called =>
        \A i \in 1..Len(tweetCall.rendered) :
            tweetCall.rendered[i].width =
                (IF Len(articles[counter].matching_grafs) = 1 THEN 60 ELSE 35)

\* C12 witness: four of six matching paragraphs were rendered, all at 35.
C12_Witness ==
    /\ tweetCall.called
    /\ Len(articles[counter].matching_grafs) > 4
    /\ Len(tweetCall.rendered) = 4
    /\ \A i \in 1..4 : tweetCall.rendered[i].width = 35

\* starts of the paragraphs of a text: its first position and the position
\* after each newline
ParaStarts(t) == {s \in 1..(Len(t) + 1) : s = 1 \/ t[s - 1] = "\n"}

\* the paragraph that starts at s: up to the next newline or the end
ParaAt(t, s) ==
    LET e == CHOOSE e \in (s - 1)..Len(t) :
                /\ \A j \in s..e : t[j] # "\n"
                /\ e = Len(t) \/ t[e + 1] = "\n"
    IN  [j \in 1..(e - s + 1) |-> t[s + j - 1]]

\* the same letter, whatever the case
SameLetter(c, d) ==
    c = d \/ \E i \in 1..Len(UpperCase) : {c, d} = {UpperCase[i], LowerCase[i]}

\* some phrase of the lexicon occurs in g, case ignored
HasPhrase(g) ==
    \E k \in 1..Len(FOIA_PHRASES) :
        \E off \in 0..Len(g) :
            /\ off + Len(FOIA_PHRASES[k]) <= Len(g)
            /\ \A j \in 1..Len(FOIA_PHRASES[k]) :
                  SameLetter(g[off + j], FOIA_PHRASES[k][j])

\* C13: after check_for_matches, matching_grafs holds exactly the paragraphs
\* of the text (split at newlines) that contain a phrase of the lexicon, case
\* ignored: each of them, nothing else, in the order and the case of the
\* text, a repeated paragraph as often as it occurs, nothing when none
\* matches.
C13_ExactlyMatchingGrafs ==
    (pc \in {"tweet", "persist"} /\ batch = 1 /\ counter = 1) =>
        \A t \in documents :
            LET starts == {s \in ParaStarts(t) : HasPhrase(ParaAt(t, s))}
                grafs == articles[1].matching_grafs
            IN  /\ Len(grafs) = Cardinality(starts)
                /\ \A s \in starts :
                      grafs[Cardinality({r \in starts : r <= s})] = ParaAt(t, s)

\* C13 witness: of a text of at least three paragraphs, two equal paragraphs
\* in upper case matched and another did not.
C13_Witness ==
    /\ pc = "tweet"
    /\ \E t \in documents : Cardinality(ParaStarts(t)) >= 3
    /\ Len(articles[1].matching_grafs) = 2
    /\ articles[1].matching_grafs[1] = <<"F",".","O",".","I",".","A",".">>
    /\ articles[1].matching_grafs[2] = articles[1].matching_grafs[1]

\* the url requests.head ends at, as line 54 reads it from the response
ResolvedUrl(res) == IF res.hasLocation THEN res.location ELSE res.url

\* C14, as claimed: for every outlet, every url and every redirect mapping,
\* canonicalizing the canonical url gives the canonical url again.
C14_Idempotent ==
    Len(articles) = 2 => articles[2].url = articles[1].url

\* C14: canonicalizing the canonical url gives the canonical url again for
\* every outlet that is not looked up, and for ProPublica and Reuters when
\* the lookup of the canonical url ends at that url itself.
C14_IdempotentAtFixedPoint ==
    (/\ Len(articles) = 2
     /\ \/ rss_feeds[1] \notin {"ProPublica", "Reuters"}
        \/ ResolvedUrl(head[articles[1].url]) = articles[1].url)
        => articles[2].url = articles[1].url

\* C14 witness: a ProPublica link was redirected, the location lost its
\* fragment or query, and the lookup of the result ended where it started;
\* the second application has been made.
C14_Witness ==
    /\ Len(articles) = 2
    /\ rss_feeds[1] = "ProPublica"
    /\ head[feedData[1][1].link].hasLocation
    /\ head[feedData[1][1].link].location # feedData[1][1].link
    /\ articles[1].url # head[feedData[1][1].link].location
    /\ articles[1].url # <<>>
    /\ ResolvedUrl(head[articles[1].url]) = articles[1].url

\* while main works on the counter-th article of a batch, the rows of the
\* articles before it, and only those, have been added since the outlet's
\* rows were read
CommittedBeforeNext ==
    /\ pc \in {"check", "tweet", "persist"} =>
          /\ Len(store) = readRows + counter - 1
          /\ \A j \in 1..(counter - 1) :
                /\ store[readRows + j].outlet = articles[j].outlet
                /\ store[readRows + j].url = articles[j].url
    /\ pc = "sleep" => Len(store) = readRows + counter

\* nothing is extracted, posted or recorded in this run for the outlet and
\* url of row k
RowNotProcessedAgain(k) ==
    /\ \A e \in 1..Len(extracted) :
          ~(extracted[e].outlet = store[k].outlet /\ extracted[e].url = store[k].url)
    /\ \A p \in RunPosts :
          ~(posts[p].outlet = store[k].outlet /\ posts[p].url = store[k].url)
    /\ \A r \in (rowsAtStart + 1)..Len(store) :
          ~(store[r].outlet = store[k].outlet /\ store[r].url = store[k].url)

\* C15, as claimed: an article's row is committed before main goes on to the
\* next article, and in a run started after a crash no article with a row
\* committed before the crash is extracted, posted or recorded again.
C15_CommittedNotRedone ==
    /\ CommittedBeforeNext
    /\ (prevCrashed /\ FeedsDistinct) =>
          \A k \in 1..rowsAtStart : RowNotProcessedAgain(k)

\* C15: an article's row is committed before main goes on to the next
\* article, and in a run started after a crash no article with a row
\* committed before the crash is extracted, posted or recorded again as long
\* as its outlet has no more rows than the window of recent urls holds.
C15_CommittedNotRedoneInWindow ==
    /\ CommittedBeforeNext
    /\ prevCrashed =>
          \A k \in 1..rowsAtStart :
              RowsOf(store, store[k].outlet) <= RecentLimit => RowNotProcessedAgain(k)

\* C15 witness: the run was killed after a commit; the restarted run, over a
\* feed that has the committed article, added the row of another article and
\* ended, the outlet still within the window.
C15_Witness ==
    /\ prevCrashed
    /\ pc = "done"
    /\ rowsAtStart >= 1
    /\ Len(store) > rowsAtStart
    /\ RowsOf(store, rss_feeds[1]) <= RecentLimit
    /\ \E i \in 1..Len(feedData[1]) : CanonOf(1, i) = store[1].url

\* C16: with a crash between two runs over the same feeds, no article (outlet
\* and url) has been posted more than once in all.
C16_NoSecondPost ==
    (prevCrashed /\ FeedsDistinct) =>
        \A j \in 1..Len(posts) : \A k \in 1..Len(posts) :
            (posts[j].outlet = posts[k].outlet /\ posts[j].url = posts[k].url) => j = k

\* statuses posted in this run for the url u of the current batch
BatchPosts(u) == {p \in RunPosts : posts[p].feed = batch /\ posts[p].url = u}

\* the flags of the articles in memory and of the rows in the table
FlagInv ==
    /\ \A i \in 1..Len(articles) :
          \* not set before the article's turn
          /\ (pc \in {"check", "tweet"} /\ i >= counter) => ~articles[i].tweeted
          /\ (InBatch /\ i > counter) => ~articles[i].tweeted
          \* set only on an article that matched
          /\ articles[i].tweeted => articles[i].matching_grafs # <<>>
          \* one posted status for each flag set
          /\ Cardinality(BatchPosts(articles[i].url))
                = Cardinality({j \in 1..Len(articles) :
                                  articles[j].url = articles[i].url /\ articles[j].tweeted})
    /\ \A j \in 1..(Len(store) - readRows) :
          \* the rows of the batch carry the flags of its articles
          /\ j <= Len(articles)
          /\ store[readRows + j].url = articles[j].url
          /\ store[readRows + j].tweeted = articles[j].tweeted
          /\ articles[j].matching_grafs = <<>> => ~store[readRows + j].tweeted
    /\ \A k \in 1..Len(store) :
          store[k].tweeted =>
              \E p \in 1..Len(posts) :
                  posts[p].outlet = store[k].outlet /\ posts[p].url = store[k].url

\* a flag that is set stays set, and a flag is set only by the step of tweet
\* that posts the status of the article
FlagStep ==
    (Len(articles') = Len(articles) /\ batch' = batch /\ runs' = runs) =>
        \A i \in 1..Len(articles) :
            /\ articles[i].tweeted => articles'[i].tweeted
            /\ (~articles[i].tweeted /\ articles'[i].tweeted) =>
                  /\ pc = "tweet"
                  /\ i = counter
                  /\ error' = "none"
                  /\ Len(posts') = Len(posts) + 1
                  /\ posts'[Len(posts')].outlet = articles[i].outlet
                  /\ posts'[Len(posts')].url = articles[i].url

\* C17: the flag of an article is false when the article is made, goes from
\* false to true at most once and only in the step that posts its status;
\* a row with the flag set is the row of an article that matched and was
\* posted, and an article without a match gets a row with the flag unset.
C17_PostedFlag == [](FlagInv) /\ [][FlagStep]_vars

\* C17 witness: the first article of the batch matched, was posted and
\* recorded with the flag set, the second did not match and was recorded
\* with the flag unset.
C17_Witness ==
    /\ pc = "sleep"
    /\ Len(store) - readRows = 2
    /\ store[readRows + 1].tweeted
    /\ ~store[readRows + 2].tweeted
    /\ articles[2].matching_grafs = <<>>

\* C18: every step, a crash and the start of a new run included, leaves the
\* rows of the table as they were, in their order, and adds rows only at the
\* end; the only step that changes the table is the insert and commit of the
\* record of the article being processed, which adds exactly that row.
C18_AppendOnly ==
    [][/\ Len(store') >= Len(store)
       /\ \A k \in 1..Len(store) : store'[k] = store[k]
       /\ store' # store =>
             /\ pc = "persist"
             /\ Len(store') = Len(store) + 1
             /\ store'[Len(store')].outlet = articles[counter].outlet
             /\ store'[Len(store')].url = articles[counter].url]_vars

\* C18 witness: in a run restarted after a crash, a row has just been added
\* behind the rows committed before the crash.
C18_Witness ==
    /\ prevCrashed
    /\ pc = "sleep"
    /\ rowsAtStart >= 1
    /\ Len(store) > rowsAtStart

\* the articles of the batch are the entries of the feed whose url was not
\* among the recent urls, in the order of the feed
SurvivorsInFeedOrder ==
    \E idx \in [1..Len(articles) -> 1..Len(feedData[batch])] :
        /\ \A j, k \in 1..Len(articles) : j < k => idx[j] < idx[k]
        /\ \A k \in 1..Len(articles) : articles[k].url = CanonOf(batch, idx[k])
        /\ \A i \in 1..Len(feedData[batch]) :
              (\E k \in 1..Len(articles) : idx[k] = i)
                  <=> CanonOf(batch, i) \notin Range(recent_urls)

\* the extractions of the batch are those of its first articles, one each, in
\* order, up to the article main is at; nothing of a later feed has happened
BatchInOrder ==
    LET OfBatch(e) == e.feed = batch
        mine == SelectSeq(extracted, OfBatch)
        n == IF pc = "check" THEN counter - 1 ELSE counter
    IN  /\ Len(mine) = n
        /\ \A j \in 1..n : mine[j].url = articles[j].url
        /\ \A e \in 1..Len(extracted) : extracted[e].feed <= batch
        /\ \A p \in RunPosts :
              /\ posts[p].feed <= batch
              /\ posts[p].feed = batch =>
                    \E j \in 1..counter : articles[j].url = posts[p].url

\* C19: a run takes the outlets in the configured order and the surviving
\* articles of an outlet in the order of its feed; the extraction of an
\* article starts only after the articles before it were matched, posted if
\* they matched, and committed; the feed of an outlet is taken up only after
\* every surviving article of the outlets before it has its row.
C19_Sequential ==
    /\ \A j, k \in 1..Len(extracted) : j < k => extracted[j].feed <= extracted[k].feed
    /\ \A j, k \in RunPosts : j < k => posts[j].feed <= posts[k].feed
    /\ InBatch =>
          /\ batch = fi
          /\ SurvivorsInFeedOrder
          /\ CommittedBeforeNext
          /\ BatchInOrder
          /\ readRows - rowsAtStart = survivors - Len(articles)
    /\ pc \in {"feed", "done"} => Len(store) - rowsAtStart = survivors

\* C19 witness: the two articles of the first outlet are recorded, the first
\* article of the second outlet is recorded, main is about to extract the
\* second.
C19_Witness ==
    /\ pc = "check"
    /\ batch = 2
    /\ counter = 2
    /\ Len(store) - rowsAtStart = 3
    /\ articles[1].url # articles[2].url

\* the i-th entry of feed f has a row
Recorded(f, i) ==
    \E k \in 1..Len(store) :
        store[k].outlet = rss_feeds[f] /\ store[k].url = CanonOf(f, i)

\* C20: when the script is run again and again and the text extraction of
\* one article fails at every attempt, every other entry of every feed, those
\* behind the failing article and those of later outlets included, has a row
\* in the end.
C20_OthersEventuallyRecorded ==
    <>(\A f \in 1..Len(rss_feeds) : \A i \in 1..Len(feedData[f]) :
          CanonOf(f, i) # BrokenUrl => Recorded(f, i))

====
